---- MODULE Spec2Model ----
(***************************************************************************)
(* Model of app.py: the name -> SMILES -> Mol -> PNG pipeline that runs    *)
(* when the "search_form" form is submitted.                               *)
(*                                                                         *)
(* Python values are tagged records so that values of different Python     *)
(* types can be compared.  A compound name is a sequence of characters.    *)
(***************************************************************************)
EXTENDS Integers, Sequences, FiniteSets, TLC

\* ------------------------------------------------------------------ bounds
MaxNameLen == 2          \* longest compound name typed into the form
MaxHits == 3             \* longest candidate list, lookup on its own
MaxSessionHits == 1      \* longest candidate list, repeated submissions

\* ------------------------------------------------- program constants
MinSize == 200
MaxSize == 4000
DefaultWidth == 1200
DefaultHeight == 800

\* ------------------------------------------------------- Python values
None == [t |-> "None"]
Str(s) == [t |-> "str", s |-> s]
Num(n) == [t |-> "int", n |-> n]
List(items) == [t |-> "list", items |-> items]
EmptyDict == [t |-> "dict0"]          \* {} : a dict without keys
Undefined == [t |-> "undefined"]      \* a script name not (yet) bound

\* Python truthiness (what "if x", "not x" and "x or y" test)
Truthy(v) ==
    CASE v.t = "None" -> FALSE
      [] v.t = "undefined" -> FALSE
      [] v.t = "str" -> v.s # ""
      [] v.t = "int" -> v.n # 0
      [] v.t = "dict0" -> FALSE
      [] v.t = "list" -> v.items # <<>>
      [] OTHER -> TRUE

\* outcome of a Python call: a returned value or a raised exception
Return(v) == [exc |-> FALSE, val |-> v]
Raise(e) == [exc |-> TRUE, val |-> Str(e)]

\* ------------------------------------------------------------ str.strip
Whitespace == {" ", "\t", "\n", "\r"}

RECURSIVE lstrip(_)
lstrip(s) ==
    IF s # <<>> /\ Head(s) \in Whitespace THEN lstrip(Tail(s)) ELSE s

RECURSIVE rstrip(_)
rstrip(s) ==
    IF s # <<>> /\ s[Len(s)] \in Whitespace
    THEN rstrip(SubSeq(s, 1, Len(s) - 1))
    ELSE s

\* variant: the name is used as typed
strip_none(s) == s

strip(s) == rstrip(lstrip(s))

\* ------------------------------------------------------------ dict.get
\* d.get(key): None for an absent key, AttributeError when d is not a dict
get(d, key) ==
    IF d.t = "dict0" THEN Return(None)
    ELSE IF d.t # "dict" THEN Raise("AttributeError")
    ELSE IF key \in DOMAIN d THEN Return(d[key])
    ELSE Return(None)

\* "x or y"
Or(x, y) == IF Truthy(x) THEN x ELSE y

\* ------------------------------------------- the remote service's answers
\* values of the "canonical_smiles" field of a structure record
Structures(cs) == [t |-> "dict", canonical_smiles |-> cs]
\* one entry of the "molecules" list
Candidate(ms) == [t |-> "dict", molecule_structures |-> ms]

Candidates ==
    { None,                                  \* an entry that is not a record
      Candidate(None),                       \* no structure record
      Candidate(Str("x")),                   \* structure record is not a record
      Candidate(Structures(Str(""))),        \* empty canonical field
      Candidate(Structures(Str("CCO"))),     \* ethanol
      Candidate(Structures(Str("C1CC"))),    \* unclosed ring: not valid SMILES
      Candidate(Structures(Num(7))) }        \* non-empty field that is no string

HitLists(k) == UNION { [1..n -> Candidates] : n \in 0..k }

Undecodable == [t |-> "undecodable"]  \* a body that is not JSON
Body(m) == [t |-> "dict", molecules |-> m]

Bodies(k) ==
    { Undecodable, None, EmptyDict, Body(None), Body(Num(7)) }
        \cup { Body(List(hits)) : hits \in HitLists(k) }

RequestFailures == {"timeout", "connection_error", "http_error"}

Responses(k) ==
    { [kind |-> f] : f \in RequestFailures }
        \cup { [kind |-> "ok", body |-> b] : b \in Bodies(k) }

\* ----------------------------------------------- get_smiles_from_chembl
\* requests.get(url, timeout=30) followed by r.raise_for_status()
requests_get(url, net) ==
    IF net.kind \in RequestFailures
    THEN Raise("RequestException")
    ELSE Return(net)

\* r.json()
json(r) ==
    IF r.body.t = "undecodable" THEN Raise("JSONDecodeError") ELSE Return(r.body)

\* "for h in hits": the items of a list, TypeError for a non-iterable
iter(v) ==
    IF v.t = "list" THEN Return(v.items) ELSE Raise("TypeError")

\* variant: the loop gives up at a candidate without a canonical field
ScanFirstOnly(hits) ==
    IF hits = <<>> THEN Return(None)
    ELSE LET g1 == get(Head(hits), "molecule_structures")
         IN  IF g1.exc THEN g1
             ELSE LET g2 == get(Or(g1.val, EmptyDict), "canonical_smiles")
                  IN  IF g2.exc THEN g2
                      ELSE IF Truthy(g2.val) THEN Return(g2.val)
                      ELSE Return(None)

\* body of the for loop over the candidates
RECURSIVE ScanHits(_)
ScanHits(hits) ==
    IF hits = <<>> THEN Return(None)
    ELSE LET h == Head(hits)
             g1 == get(h, "molecule_structures")
         IN  IF g1.exc THEN g1
             ELSE LET ms == Or(g1.val, EmptyDict)
                      g2 == get(ms, "canonical_smiles")
                  IN  IF g2.exc THEN g2
                      ELSE IF Truthy(g2.val) THEN Return(g2.val)
                      ELSE ScanHits(Tail(hits))

\* the statements inside the second try block
ParseBody(r) ==
    LET data == json(r)
    IN  IF data.exc THEN data
        ELSE LET g == get(data.val, "molecules")
             IN  IF g.exc THEN g
                 ELSE LET hits == iter(Or(g.val, List(<<>>)))
                      IN  IF hits.exc THEN hits ELSE ScanHits(hits.val)

\* "except requests.RequestException: return None"
ExceptRequestException(out) ==
    IF out.exc /\ out.val = Str("RequestException") THEN Return(None) ELSE out

\* variant: no handler around the decoding of the body
PassException(out) == out

\* "except Exception: return None"
ExceptException(out) ==
    IF out.exc THEN Return(None) ELSE out

\* urllib.parse.quote_plus on the modelled alphabet: a space becomes "+"
quote_plus(nm) == [i \in 1..Len(nm) |-> IF nm[i] = " " THEN "+" ELSE nm[i]]

get_smiles_from_chembl(nm, net) ==
    LET url == <<"search.json?q=">> \o quote_plus(nm)
        r == requests_get(url, net)
    IN  IF r.exc THEN ExceptRequestException(r)
        ELSE ExceptException(ParseBody(r.val))

\* --------------------------------------------------------- smiles_to_mol
\* the strings of the model that RDKit accepts as SMILES
ValidSmiles == {"CCO"}

Mol(s, san, conf) ==
    [t |-> "Mol", smiles |-> s, sanitized |-> san, coords2D |-> conf]

\* Chem.MolFromSmiles: None for a string it cannot parse or sanitize,
\* ArgumentError for an argument that is not a string
MolFromSmiles(v) ==
    IF v.t # "str" THEN Raise("ArgumentError")
    ELSE IF v.s \in ValidSmiles THEN Return(Mol(v.s, TRUE, FALSE))
    ELSE Return(None)

\* Chem.SanitizeMol(mol), in place
SanitizeMol(m) == [m EXCEPT !.sanitized = TRUE]

\* AllChem.Compute2DCoords(mol), in place
Compute2DCoords(m) == [m EXCEPT !.coords2D = TRUE]

\* variant: the molecule is returned without its 2D coordinates
smiles_to_mol_nocoords(v) ==
    IF ~Truthy(v) THEN Return(None)
    ELSE LET p == MolFromSmiles(v)
         IN  IF p.exc THEN p
             ELSE IF p.val = None THEN Return(None)
             ELSE Return(SanitizeMol(p.val))

smiles_to_mol(v) ==
    IF ~Truthy(v) THEN Return(None)
    ELSE LET p == MolFromSmiles(v)
         IN  IF p.exc THEN p
             ELSE IF p.val = None THEN Return(None)
             ELSE Return(Compute2DCoords(SanitizeMol(p.val)))

\* ------------------------------------------------------ mol_to_png_bytes
\* the PNG drawn for a molecule, caption and canvas size
Png(m, lg, w, h) ==
    [t |-> "bytes", smiles |-> m.smiles, legend |-> lg, w |-> w, h |-> h]

mol_to_png_bytes(m, lg, size) ==
    IF m = None THEN Return(None)
    ELSE Return(Png(m, lg, size[1], size[2]))

\* ---------------------------------------------------------------- form
\* st.number_input(min_value, max_value): an entry outside the range is
\* not accepted and the widget keeps its value
\* variant: a number input without min_value and max_value
number_input_unchecked(entry, lo, hi, current) == entry

number_input(entry, lo, hi, current) ==
    IF lo <= entry /\ entry <= hi THEN entry ELSE current

Chars == {" ", "a"}
Names == UNION { [1..n -> Chars] : n \in 0..MaxNameLen }
SizeEntries == {MinSize - 1, MinSize, MaxSize, MaxSize + 1}
Legends == {"", "caption"}

\* ------------------------------------------------------- page elements
MsgInput == "Please type the molecule name you want to draw (in English)."
MsgLookup == "The compound was not found in ChEMBL or there was a network problem."
MsgInvalid == "Invalid SMILES."
MsgRender == "The image could not be generated."

st_error(msg) == [el |-> "error", body |-> msg]
st_success(sm) == [el |-> "success", found |-> sm]
st_image(data, cap) == [el |-> "image", data |-> data, caption |-> cap]
st_download_button(data, fname, mime) ==
    [el |-> "download_button", data |-> data, file_name |-> fname, mime |-> mime]
\* what Streamlit shows for an exception the script did not catch
st_exception(e) == [el |-> "exception", body |-> e]

Call(fn, arg) == [fn |-> fn, arg |-> arg]

\* kind of result the page shows
Outcome(pg) == IF pg = <<>> THEN "none" ELSE pg[1].el

\* ------------------------------------------------------------------ state
VARIABLES
    name, width, height, legend,   \* the values of the form's widgets
    pc,                            \* position of the script run
    net,                           \* what the remote service answers this run
    smiles, mol, png_bytes,        \* the script's variables
    calls,                         \* the stage calls made by this run, in order
    page,                          \* the elements this run has put on the page
    prev                           \* result shown by the run before this one

vars == <<name, width, height, legend, pc, net, smiles, mol, png_bytes,
          calls, page, prev>>

NoResponse == [kind |-> "none"]

\* variant: the elements of the previous run stay on the page
KeepPage(pg) == pg

\* a script run starts from an empty page: the previous run's elements go
NewPage(pg) == <<>>

Init ==
    /\ name = <<>>
    /\ width = DefaultWidth
    /\ height = DefaultHeight
    /\ legend = ""
    /\ pc = "idle"
    /\ net = NoResponse
    /\ smiles = Undefined
    /\ mol = Undefined
    /\ png_bytes = Undefined
    /\ calls = <<>>
    /\ page = <<>>
    /\ prev = "none"

\* an exception nobody catches ends the run; Streamlit shows it
Uncaught(out) ==
    /\ page' = Append(page, st_exception(out.val.s))
    /\ pc' = "done"

\* st.error(msg); st.stop()
ErrorStop(msg) ==
    /\ page' = Append(page, st_error(msg))
    /\ pc' = "done"

\* The form is filled in and "Generate image" is pressed: the script reruns
\* with submitted = True and checks the name.
Submit(n, wEntry, hEntry, lg) ==
    /\ pc \in {"idle", "done"}
    /\ name' = n
    /\ width' = number_input(wEntry, MinSize, MaxSize, width)
    /\ height' = number_input(hEntry, MinSize, MaxSize, height)
    /\ legend' = lg
    /\ net' = NoResponse
    /\ smiles' = Undefined
    /\ mol' = Undefined
    /\ png_bytes' = Undefined
    /\ calls' = <<>>
    /\ prev' = Outcome(page)
    /\ IF strip(n) = <<>>
       THEN /\ page' = Append(NewPage(page), st_error(MsgInput))
            /\ pc' = "done"
       ELSE /\ page' = NewPage(page)
            /\ pc' = "resolve"

\* variant: the run goes on to the Parser after the lookup-failure message
LookupNoStop(answers) ==
    /\ pc = "resolve"
    /\ \E r \in answers :
          LET out == get_smiles_from_chembl(strip(name), r)
          IN  /\ net' = r
              /\ calls' = Append(calls, Call("get_smiles_from_chembl", strip(name)))
              /\ smiles' = out.val
              /\ pc' = "parse"
              /\ page' = IF Truthy(out.val) THEN page
                         ELSE Append(page, st_error(MsgLookup))
    /\ UNCHANGED <<name, width, height, legend, mol, png_bytes, prev>>

\* smiles = get_smiles_from_chembl(name.strip()); if not smiles: ...
Lookup(answers) ==
    /\ pc = "resolve"
    /\ \E r \in answers :
          LET out == get_smiles_from_chembl(strip(name), r)
          IN  /\ net' = r
              /\ calls' = Append(calls, Call("get_smiles_from_chembl", strip(name)))
              /\ IF out.exc
                 THEN Uncaught(out) /\ UNCHANGED smiles
                 ELSE /\ smiles' = out.val
                      /\ IF ~Truthy(out.val)
                         THEN ErrorStop(MsgLookup)
                         ELSE pc' = "parse" /\ UNCHANGED page
    /\ UNCHANGED <<name, width, height, legend, mol, png_bytes, prev>>

Resolve == Lookup(Responses(MaxSessionHits))

\* mol = smiles_to_mol(smiles); if mol is None: ...
Parse ==
    /\ pc = "parse"
    /\ LET out == smiles_to_mol(smiles)
       IN  /\ calls' = Append(calls, Call("smiles_to_mol", smiles))
           /\ IF out.exc
              THEN Uncaught(out) /\ UNCHANGED mol
              ELSE /\ mol' = out.val
                   /\ IF out.val = None
                      THEN ErrorStop(MsgInvalid)
                      ELSE pc' = "render" /\ UNCHANGED page
    /\ UNCHANGED <<name, width, height, legend, net, smiles, png_bytes, prev>>

\* png_bytes = mol_to_png_bytes(mol, legend=legend, size=(int(width), int(height)))
\* if not png_bytes: ...
Render ==
    /\ pc = "render"
    /\ LET size == <<width, height>>
           out == mol_to_png_bytes(mol, legend, size)
       IN  /\ calls' = Append(calls, Call("mol_to_png_bytes",
                                  [mol |-> mol, legend |-> legend, size |-> size]))
           /\ IF out.exc
              THEN Uncaught(out) /\ UNCHANGED png_bytes
              ELSE /\ png_bytes' = out.val
                   /\ IF ~Truthy(out.val)
                      THEN ErrorStop(MsgRender)
                      ELSE pc' = "present" /\ UNCHANGED page
    /\ UNCHANGED <<name, width, height, legend, net, smiles, mol, prev>>

\* variant: the file is named after the name as typed
untrimmed_filename(n) == n \o <<".", "p", "n", "g">>

\* the name of the downloaded file: f"{name.strip()}.png"
default_filename(n) == strip(n) \o <<".", "p", "n", "g">>

\* st.success, st.image and st.download_button
Present ==
    /\ pc = "present"
    /\ page' = page \o << st_success(smiles),
                          st_image(png_bytes, legend),
                          st_download_button(png_bytes, default_filename(name),
                                             "image/png") >>
    /\ pc' = "done"
    /\ UNCHANGED <<name, width, height, legend, net, smiles, mol, png_bytes,
                   calls, prev>>

Next ==
    \/ \E n \in Names, w \in SizeEntries, h \in SizeEntries, lg \in Legends :
          Submit(n, w, h, lg)
    \/ Resolve
    \/ Parse
    \/ Render
    \/ Present

Spec == Init /\ [][Next]_vars

\* One submission of a name that passed the check of the name, answered by
\* any response with up to MaxHits candidates.
InitLookup ==
    /\ name \in { n \in Names : strip(n) # <<>> }
    /\ width = DefaultWidth
    /\ height = DefaultHeight
    /\ legend = ""
    /\ pc = "resolve"
    /\ net = NoResponse
    /\ smiles = Undefined
    /\ mol = Undefined
    /\ png_bytes = Undefined
    /\ calls = <<>>
    /\ page = <<>>
    /\ prev = "none"

ResolveAny == Lookup(Responses(MaxHits))

NextLookup ==
    \/ ResolveAny
    \/ Parse
    \/ Render
    \/ Present

SpecLookup == InitLookup /\ [][NextLookup]_vars

\* =============================================================== claims
Stages == <<"get_smiles_from_chembl", "smiles_to_mol", "mol_to_png_bytes">>
Called(fn) == \E i \in DOMAIN calls : calls[i].fn = fn
CalledFns == [i \in DOMAIN calls |-> calls[i].fn]
LookupOnly == <<st_error(MsgLookup)>>

\* C1: the stages run strictly forward and short-circuit.  The calls of a
\* submission are a prefix of Resolver, Parser, Renderer; the Parser is called
\* only with the non-absent encoding the Resolver returned, the Renderer only
\* after the Parser returned a molecule; when the Resolver returned absent (a
\* timeout among the reasons) the submission ends with the lookup-failure
\* message and the Resolver is the only stage called.
C1_ForwardShortCircuit ==
    /\ \E k \in 0..3 : CalledFns = SubSeq(Stages, 1, k)
    /\ Called("smiles_to_mol") => Truthy(smiles) /\ calls[2].arg = smiles
    /\ Called("mol_to_png_bytes") => mol.t = "Mol" /\ calls[3].arg.mol = mol
    /\ (Called("get_smiles_from_chembl") /\ ~Truthy(smiles))
          => pc = "done" /\ page = LookupOnly /\ Len(calls) = 1
    /\ net.kind = "timeout"
          => pc = "done" /\ page = LookupOnly /\ Len(calls) = 1

C1_Witness ==
    /\ pc = "done"
    /\ net.kind = "timeout"
    /\ CalledFns = <<"get_smiles_from_chembl">>
    /\ page = LookupOnly

\* a name that is empty or made of whitespace only
Blank(n) == \A i \in 1..Len(n) : n[i] \in Whitespace

\* C2: a submission whose name is empty or whitespace only ends at once with
\* the input-validation message; the Resolver is not called and no answer of
\* the remote service is consumed.
C2_BlankNameNoLookup ==
    (pc # "idle" /\ Blank(name))
        => /\ pc = "done"
           /\ page = <<st_error(MsgInput)>>
           /\ calls = <<>>
           /\ net = NoResponse

C2_Witness ==
    /\ pc = "done"
    /\ name = <<" ", " ">>
    /\ page = <<st_error(MsgInput)>>
    /\ calls = <<>>

\* ---- the candidates of the answer the Resolver was given
HasHitList == /\ calls # <<>>
              /\ net.kind = "ok"
              /\ net.body.t = "dict"
              /\ net.body.molecules.t = "list"
Hits == net.body.molecules.items

\* the candidate carries a non-empty canonical structural field
Carries(h) ==
    /\ h.t = "dict"
    /\ h.molecule_structures.t = "dict"
    /\ Truthy(h.molecule_structures.canonical_smiles)
FieldOf(h) == h.molecule_structures.canonical_smiles

\* the candidate is not a record, or its structure record is a non-empty
\* value that is not a record
Malformed(h) ==
    \/ h.t # "dict"
    \/ Truthy(h.molecule_structures) /\ h.molecule_structures.t # "dict"

FirstCarrying(hs) ==
    { i \in DOMAIN hs : Carries(hs[i]) /\ \A j \in 1..(i - 1) : ~Carries(hs[j]) }

\* C3 as stated: the result is the field of the first candidate that carries
\* a non-empty canonical structural field, and absent exactly when there is
\* no such candidate.
C3_FirstCarryingOrAbsent ==
    HasHitList =>
        /\ \A i \in FirstCarrying(Hits) : smiles = FieldOf(Hits[i])
        /\ (smiles = None) <=> (FirstCarrying(Hits) = {})

\* C3 (amended): the result is the field of the first candidate that carries
\* a non-empty canonical structural field provided no malformed candidate
\* comes before it; it is absent exactly when the list is empty, no candidate
\* carries such a field, or a malformed candidate comes before the first one
\* that does.  Candidates without a structure record or with an empty field
\* are skipped.
C3_FirstCarryingUnlessMalformed ==
    HasHitList =>
        LET reached == { i \in FirstCarrying(Hits) :
                            \A j \in 1..(i - 1) : ~Malformed(Hits[j]) }
        IN  /\ \A i \in reached : smiles = FieldOf(Hits[i])
            /\ (smiles = None) <=> (reached = {})

C3_Witness ==
    /\ HasHitList
    /\ Len(Hits) = 3
    /\ Hits[1] = Candidate(None)
    /\ Hits[2] = Candidate(Structures(Str("")))
    /\ Carries(Hits[3])
    /\ smiles = FieldOf(Hits[3])

\* C4: a timeout, a connection error, a non-success HTTP status and a body
\* that cannot be decoded all make the Resolver return the same absent result
\* without raising, which is also its result for an empty list of candidates:
\* the submission ends with the lookup-failure message and nothing else.
LookupFailed ==
    \/ net.kind \in {"timeout", "connection_error", "http_error"}
    \/ net.kind = "ok" /\ net.body.t = "undecodable"
    \/ net.kind = "ok" /\ net.body = Body(List(<<>>))

C4_FailuresCollapse ==
    (calls # <<>> /\ LookupFailed)
        => /\ smiles = None
           /\ pc = "done"
           /\ page = LookupOnly
           /\ Len(calls) = 1

C4_Witness ==
    /\ pc = "done"
    /\ net.kind = "ok"
    /\ net.body.t = "undecodable"
    /\ smiles = None
    /\ page = LookupOnly

\* C5: whatever encoding the Parser is called with, the call returns; it
\* returns absent unless the encoding is a string RDKit accepts, and no
\* exception of the parse or sanitization step leaves smiles_to_mol.
C5_ParserReturnsOrAbsent ==
    Called("smiles_to_mol")
        => /\ mol # Undefined
           /\ Outcome(page) # "exception"
           /\ (smiles.t # "str" => mol = None)

\* the five ways a submission may end
FiveOutcomes ==
    { <<st_error(MsgInput)>>, <<st_error(MsgLookup)>>,
      <<st_error(MsgInvalid)>>, <<st_error(MsgRender)>>,
      << st_success(smiles), st_image(png_bytes, legend),
         st_download_button(png_bytes, default_filename(name), "image/png") >> }

\* C6: every submission ends in exactly one of the five outcomes, no
\* exception reaches the page, and no stage is called twice.
C6_FiveOutcomesNoException ==
    /\ pc = "done" => page \in FiveOutcomes
    /\ \A i \in DOMAIN page : page[i].el # "exception"
    /\ \A i, j \in DOMAIN calls : calls[i].fn = calls[j].fn => i = j

\* C7: the Renderer is only called with a width and a height in 200..4000; a
\* submission whose molecule was parsed and whose width or height is exactly
\* 200 or 4000 ends with the image drawn at that size.
C7_SizeInRange ==
    /\ width \in 200..4000 /\ height \in 200..4000
    /\ \A i \in DOMAIN calls :
          calls[i].fn = "mol_to_png_bytes"
              => /\ calls[i].arg.size[1] \in 200..4000
                 /\ calls[i].arg.size[2] \in 200..4000
    /\ (pc = "done" /\ mol.t = "Mol"
           /\ (width \in {200, 4000} \/ height \in {200, 4000}))
          => /\ Outcome(page) = "success"
             /\ png_bytes.w = width
             /\ png_bytes.h = height

C7_Witness ==
    /\ pc = "done"
    /\ Outcome(page) = "success"
    /\ width = 200
    /\ height = 4000
    /\ png_bytes.w = 200
    /\ png_bytes.h = 4000

\* t is n without its leading and trailing whitespace
IsTrimOf(t, n) ==
    /\ t = <<>> \/ (t[1] \notin Whitespace /\ t[Len(t)] \notin Whitespace)
    /\ \E i \in 0..Len(n) :
          /\ i + Len(t) <= Len(n)
          /\ t = SubSeq(n, i + 1, i + Len(t))
          /\ Blank(SubSeq(n, 1, i))
          /\ Blank(SubSeq(n, i + Len(t) + 1, Len(n)))

Shown(el) == \E i \in DOMAIN page : page[i].el = el

\* C8: the encoding, the image or the download is on the page only when the
\* three stages were called and returned non-absent results; the download
\* then carries the Renderer's bytes as image/png under the trimmed name
\* followed by ".png", the trimmed name being what the Resolver was called with.
C8_SuccessPresentation ==
    (Shown("success") \/ Shown("image") \/ Shown("download_button"))
        => /\ CalledFns = Stages
           /\ Truthy(smiles) /\ mol.t = "Mol" /\ png_bytes.t = "bytes"
           /\ png_bytes = Png(calls[3].arg.mol, calls[3].arg.legend,
                              calls[3].arg.size[1], calls[3].arg.size[2])
           /\ Len(page) = 3
           /\ page[1] = st_success(smiles)
           /\ page[2] = st_image(png_bytes, legend)
           /\ page[3].el = "download_button"
           /\ page[3].data = png_bytes
           /\ page[3].mime = "image/png"
           /\ IsTrimOf(calls[1].arg, name)
           /\ page[3].file_name = calls[1].arg \o <<".", "p", "n", "g">>

C8_Witness ==
    /\ pc = "done"
    /\ name = <<" ", "a">>
    /\ Shown("download_button")
    /\ page[3].file_name = <<"a", ".", "p", "n", "g">>
    /\ calls[1].arg = <<"a">>

\* C9: a molecule held by the caller was built from a string RDKit accepts,
\* is sanitized and has its 2D coordinates.
C9_ReturnedMolComplete ==
    mol.t = "Mol"
        => /\ smiles.t = "str"
           /\ smiles.s \in ValidSmiles
           /\ mol.smiles = smiles.s
           /\ mol.sanitized
           /\ mol.coords2D

C9_Witness ==
    /\ pc = "render"
    /\ mol = Mol("CCO", TRUE, TRUE)
    /\ smiles = Str("CCO")

\* what a first submission of these values, answered by r, puts on the page
FirstSubmissionPage(n, w, h, lg, r) ==
    IF Blank(n) THEN <<st_error(MsgInput)>>
    ELSE LET s == get_smiles_from_chembl(strip(n), r)
         IN  IF ~Truthy(s.val) THEN <<st_error(MsgLookup)>>
             ELSE LET m == smiles_to_mol(s.val)
                  IN  IF m.exc THEN <<st_exception(m.val.s)>>
                      ELSE IF m.val = None THEN <<st_error(MsgInvalid)>>
                      ELSE LET b == mol_to_png_bytes(m.val, lg, <<w, h>>).val
                           IN  << st_success(s.val), st_image(b, lg),
                                  st_download_button(b, default_filename(n),
                                                     "image/png") >>

\* C10: whatever was submitted before, a finished submission shows what a
\* first submission of the same name, width, height, caption and answer of
\* the remote service shows.
C10_Stateless ==
    pc = "done" => page = FirstSubmissionPage(name, width, height, legend, net)

C10_Witness ==
    /\ pc = "done"
    /\ prev = "error"
    /\ Outcome(page) = "success"

====
